---------------------------- MODULE Spec2Model ----------------------------
(***************************************************************************)
(* A state-machine model of the site scrapers of Info_overload:            *)
(*   ClinicalTrialsScraper  (src/clinical-trials-web-scraper.py)           *)
(*   NCBIScraper            (src/ncbi-medical-infromantion-web-scraper.py) *)
(*   CDCScraper             (src/cdc-web-scraper.py)                       *)
(*   NIHScraper             (src/nih-web-scraper.py)                       *)
(*   WHOScraper             (src/who-web-scraper.py)                       *)
(*   MedicalInfoScraper     (src/pubmed-web-scraper.py)                    *)
(* One behaviour is one run of one scraper (prog).  The web is the         *)
(* environment: every fetch draws its outcome (failure, or a page made of  *)
(* fragments) from a small set.  A step is one statement group of the      *)
(* code, so that the order of fetches and sleeps is visible.               *)
(***************************************************************************)
EXTENDS Integers, Sequences, FiniteSets, TLC

VARIABLES
    prog,         \* which scraper's entry point this behaviour runs
    pc,           \* position in the code
    conditions,   \* ClinicalTrialsScraper.run_comprehensive_scrape: conditions
    max_results,  \* ClinicalTrialsScraper.run_comprehensive_scrape: max_results
    ti,           \* index of the condition the for loop is at (1-based)
    page,         \* fragments found on the page being processed (find_all result)
    ri,           \* index of the fragment the inner for loop is at (1-based)
    cur,          \* locals of the fragment iteration (title, url, details, ...)
    out,          \* list under construction (trials / articles / diseases)
    all_trials,   \* run_comprehensive_scrape: all_trials
    pubmed_results, \* NCBIScraper.run_comprehensive_scrape: pubmed_results
    selenium_data,  \* CDCScraper.scrape_disease_data: selenium_data
    result,       \* what the entry point returned (or stored as scraped_data)
    driver,       \* the webdriver instance: "none" | "open" | "quit"
    warnings,     \* number of logging.warning calls (CDCScraper)
    exports,      \* the data of each export_to_csv call, in order (CDCScraper)
    csv,          \* the file save_to_csv wrote (ClinicalTrialsScraper), if any
    cancelled,    \* environment: the caller has asked the run to stop
    calls,        \* history: per finished search call, whether its fetch failed and what it returned
    fetchLog,     \* history: the url of every fetch issued, in order
    timeouts,     \* history: the timeout each fetch of fetchLog was issued with
    lastNet,      \* history: most recent network event, "none" | "fetch" | "sleep"
    backToBack    \* history: some fetch followed a fetch with no sleep between

vars == <<prog, pc, conditions, max_results, ti, page, ri, cur, out,
          all_trials, pubmed_results, selenium_data, result, driver,
          warnings, exports, csv, cancelled, calls, fetchLog, timeouts, lastNet, backToBack>>

\* the variables only ClinicalTrialsScraper uses
ctVars == <<conditions, max_results, ti, all_trials, calls>>
\* the variables only CDCScraper and the selenium paths use
cdcVars == <<selenium_data, driver, warnings, exports>>
\* the variables ClinicalTrialsScraper never touches before it returns
notCT == <<prog, pubmed_results, selenium_data, driver, warnings, exports, csv, cancelled>>

-----------------------------------------------------------------------------
(* Bounds of the model                                                     *)

\* largest number of fragments a fetched page holds
MaxFrags == 2
\* largest max_results passed to run_comprehensive_scrape
MaxResults == 2

\* largest number of records given to a direct save_to_csv call
MaxRecords == 2

\* the candidate search terms; a run's conditions are a prefix of this list
TermNames == <<"A", "B">>

Min(a, b) == IF a < b THEN a ELSE b
Max(a, b) == IF a > b THEN a ELSE b

\* all sequences over S of length 0..n
SeqsUpTo(S, n) == UNION {[1..m -> S] : m \in 0..n}

-----------------------------------------------------------------------------
(* Values.  Every field value is a tuple whose first element is a tag, so  *)
(* that any two values can be compared.                                    *)

\* the sentinel 'N/A'
NA == <<"N/A">>
\* a local not yet assigned
Unset == <<"unset">>
\* text extracted from an element: which element, of which term's page, at which position
Text(what, term, pos) == <<what, term, pos>>
\* a nested mapping (Python dict) as a field value
Dict(m) == <<"dict", m>>
IsDict(v) == v[1] = "dict"
\* the empty dict {}
EmptyDict == [k \in {} |-> NA]

\* {**a, **b}: keys of b override keys of a
Merge(a, b) == [k \in (DOMAIN a) \cup (DOMAIN b) |-> IF k \in DOMAIN b THEN b[k] ELSE a[k]]

\* mutant of Slice: the truncation is forgotten
SliceWhole(s, k) == s

\* Python's s[:k] on a list
Slice(s, k) ==
    IF k >= 0 THEN SubSeq(s, 1, Min(k, Len(s)))
              ELSE SubSeq(s, 1, Max(0, Len(s) + k))

Last(s) == s[Len(s)]

\* what an entry point has returned: nothing yet, None, or a value
Pending == [kind |-> "pending", val |-> << >>]
None == [kind |-> "None", val |-> << >>]
Value(v) == [kind |-> "value", val |-> v]

-----------------------------------------------------------------------------
(* History of network events                                               *)

\* timeout=10 of the _get_html_content helpers, in seconds
RequestTimeout == 10

\* the timeout a fetch is issued with: timeout=t; no timeout argument
\* (requests then waits without limit); driver.get, for which the code sets
\* no page-load timeout and the driver's own default applies
Timeout(t) == <<"timeout", t>>
NoTimeout == <<"no timeout">>
DriverDefault == <<"driver default">>

\* a fetch of url is issued with the given timeout
Fetch(url, timeout) ==
    /\ fetchLog' = Append(fetchLog, url)
    /\ timeouts' = Append(timeouts, timeout)
    /\ backToBack' = (backToBack \/ lastNet = "fetch")
    /\ lastNet' = "fetch"

\* _get_html_content: requests.get(url, headers=headers, timeout=10)
Fetched(url) == Fetch(url, Timeout(RequestTimeout))

\* requests.get(url, headers=self.headers) or requests.get(base_url, params=params)
FetchedBare(url) == Fetch(url, NoTimeout)

\* driver.get(url)
Navigated(url) == Fetch(url, DriverDefault)

\* time.sleep(0.5)
Slept ==
    /\ lastNet' = "sleep"
    /\ UNCHANGED <<fetchLog, timeouts, backToBack>>

NoNet == UNCHANGED <<fetchLog, timeouts, lastNet, backToBack>>

-----------------------------------------------------------------------------
(* ClinicalTrialsScraper                                                   *)

\* what a 'tr_results' fragment can look like
\*   "titled":   has <a class="title" href=...>
\*   "nohref":   has <a class="title"> without href (title_elem['href'] raises KeyError)
\*   "untitled": has no <a class="title">
CTFragKinds == {"titled", "nohref", "untitled"}

\* the search url with its params
CTSearchUrl(term) == <<"search", term>>

\* the keys _scrape_trial_details assigns, in the order it assigns them
DetailFields == <<"nct_number", "status", "condition", "sponsor", "brief_summary",
                  "study_type", "study_phase", "primary_purpose",
                  "start_date", "completion_date", "eligibility">>

\* all 13 field names of a complete trial record
TrialFields == {"title", "url"} \cup {DetailFields[i] : i \in 1..Len(DetailFields)}

\* section_title.text.strip().lower().replace(' ', '_')
NormalizeLabel(label) ==
    CASE label = "Inclusion Criteria" -> "inclusion_criteria"
      [] label = "Exclusion Criteria" -> "exclusion_criteria"
      [] OTHER -> label

\* a detail page: whether the selectors find their elements, and its
\* 'eligibility-criteria' sections (h3 label, or NA if none; has criteria-content)
FullPage == [found |-> TRUE,
             sections |-> << [h3 |-> "Inclusion Criteria", content |-> TRUE],
                             [h3 |-> "Exclusion Criteria", content |-> FALSE] >>]
BarePage == [found |-> FALSE, sections |-> << >>]
DetailPages == {FullPage, BarePage}

\* _extract_text(soup, selector)
ExtractText(dpage, selector) == IF dpage.found THEN <<"text", selector>> ELSE NA

\* _extract_eligibility_criteria(soup)
ExtractEligibility(dpage) ==
    LET good == {i \in 1..Len(dpage.sections) :
                    dpage.sections[i].h3 # "" /\ dpage.sections[i].content}
    IN  Dict([k \in {NormalizeLabel(dpage.sections[i].h3) : i \in good} |->
                 <<"criteria", k>>])

\* mutant of DetailsUpTo: the eligibility assignment (line 153) is missing
DetailsWithoutEligibility(dpage, n) ==
    [k \in {DetailFields[i] : i \in 1..n} \ {"eligibility"} |-> ExtractText(dpage, k)]

\* the details dict after the first n assignments of _scrape_trial_details
DetailsUpTo(dpage, n) ==
    [k \in {DetailFields[i] : i \in 1..n} |->
        IF k = "eligibility" THEN ExtractEligibility(dpage) ELSE ExtractText(dpage, k)]

\* where an exception inside the try of _scrape_trial_details may strike:
\* before the n+1-th assignment.  An exception before the first assignment
\* leaves details = {}, the same record as a failed fetch gives
CrashPoints == {5}

\* outcomes of the detail fetch and extraction: the fetch fails; the page is
\* extracted to the end; the extraction of a full page is cut short
DetailOutcomes ==
    {[res |-> "fail", found |-> FALSE, upto |-> 0]} \cup
    {[res |-> "ok", found |-> d.found, upto |-> Len(DetailFields)] : d \in DetailPages} \cup
    {[res |-> "crash", found |-> FullPage.found, upto |-> n] : n \in CrashPoints}

PageOf(o) == IF o.found THEN FullPage ELSE BarePage

\* mutant of TrialInfo: the summary fields are left out of the record
TrialInfoDetailsOnly(title, url, details) == details

\* trial_info = {'title': title, 'url': trial_url, **trial_details}
TrialInfo(title, url, details) ==
    Merge([k \in {"title", "url"} |-> IF k = "title" THEN title ELSE url], details)

\* mutant of Extend: all_trials = condition_trials instead of extend
ExtendOverwrites(all, xs) == xs

\* mutant of Extend: the new records are put in front of the list
ExtendPrepends(all, xs) == xs \o all

\* all_trials.extend(condition_trials)
Extend(all, xs) == all \o xs

\* trial_rows[:max_results]
Rows == Slice(page, max_results)

NoLocals == [title |-> Unset, url |-> Unset, details |-> EmptyDict, dstat |-> "unset"]

\* line 257, 261, 79-88: next condition; fetch its search page
CT_Search ==
    /\ prog = "ct" /\ pc = "ct_for" /\ ti <= Len(conditions)
    /\ Fetched(CTSearchUrl(conditions[ti]))
    /\ \E ok \in BOOLEAN :
         IF ~ok
         THEN \* html_content is None (or empty): return []
              /\ calls' = Append(calls, [failed |-> TRUE, ret |-> << >>])
              /\ all_trials' = Extend(all_trials, << >>)
              /\ ti' = ti + 1
              /\ UNCHANGED <<pc, page, ri, cur, out>>
         ELSE \E p \in SeqsUpTo(CTFragKinds, MaxFrags) :
              /\ page' = p
              /\ ri' = 1
              /\ out' = << >>
              /\ cur' = NoLocals
              /\ pc' = "ct_row"
              /\ UNCHANGED <<all_trials, calls, ti>>
    /\ UNCHANGED <<notCT, result, conditions, max_results>>

\* mutant of CT_Row: the rows are taken from the last to the first
CT_RowReversed ==
    /\ prog = "ct" /\ pc = "ct_row" /\ ri <= Len(Rows)
    /\ LET pos == Len(Rows) + 1 - ri
           kind == Rows[pos]
           term == conditions[ti]
       IN  CASE kind = "titled" ->
                  /\ cur' = [cur EXCEPT !.title = Text("title", term, pos),
                                        !.url = Text("url", term, pos)]
                  /\ pc' = "ct_details"
                  /\ ri' = ri
             [] kind = "untitled" ->
                  /\ cur' = [cur EXCEPT !.title = NA, !.url = NA]
                  /\ pc' = "ct_details"
                  /\ ri' = ri
             [] kind = "nohref" ->
                  /\ cur' = [cur EXCEPT !.title = Text("title", term, pos)]
                  /\ pc' = "ct_row"
                  /\ ri' = ri + 1
    /\ NoNet
    /\ UNCHANGED <<notCT, result, conditions, max_results, ti, page, out, all_trials, calls>>

\* lines 90-95: take the next row and read its title and url
CT_Row ==
    /\ prog = "ct" /\ pc = "ct_row" /\ ri <= Len(Rows)
    /\ LET kind == Rows[ri]
           term == conditions[ti]
       IN  CASE kind = "titled" ->
                  /\ cur' = [cur EXCEPT !.title = Text("title", term, ri),
                                        !.url = Text("url", term, ri)]
                  /\ pc' = "ct_details"
                  /\ ri' = ri
             [] kind = "untitled" ->
                  /\ cur' = [cur EXCEPT !.title = NA, !.url = NA]
                  /\ pc' = "ct_details"
                  /\ ri' = ri
             [] kind = "nohref" ->
                  \* title is assigned, then title_elem['href'] raises KeyError:
                  \* caught at line 112, the row is skipped, no sleep
                  /\ cur' = [cur EXCEPT !.title = Text("title", term, ri)]
                  /\ pc' = "ct_row"
                  /\ ri' = ri + 1
    /\ NoNet
    /\ UNCHANGED <<notCT, result, conditions, max_results, ti, page, out, all_trials, calls>>

\* line 98, 117-158: _scrape_trial_details(trial_url)
CT_Details ==
    /\ prog = "ct" /\ pc = "ct_details"
    /\ IF cur.url = NA
       THEN /\ cur' = [cur EXCEPT !.details = EmptyDict, !.dstat = "skipped"]
            /\ NoNet
       ELSE /\ Fetched(cur.url)
            /\ \E o \in DetailOutcomes :
                 cur' = [cur EXCEPT !.details = DetailsUpTo(PageOf(o), o.upto),
                                    !.dstat = o.res]
    /\ pc' = "ct_append"
    /\ UNCHANGED <<notCT, result, conditions, max_results, ti, page, ri, out, all_trials, calls>>

\* lines 101-110: build the record, append it, sleep
CT_Append ==
    /\ prog = "ct" /\ pc = "ct_append"
    /\ out' = Append(out, TrialInfo(cur.title, cur.url, cur.details))
    /\ Slept
    /\ ri' = ri + 1
    /\ pc' = "ct_row"
    /\ UNCHANGED <<notCT, result, conditions, max_results, ti, page, cur, all_trials, calls>>

\* line 115, 267: return trials; all_trials.extend(condition_trials)
CT_Return ==
    /\ prog = "ct" /\ pc = "ct_row" /\ ri > Len(Rows)
    /\ calls' = Append(calls, [failed |-> FALSE, ret |-> out])
    /\ all_trials' = Extend(all_trials, out)
    /\ ti' = ti + 1
    /\ pc' = "ct_for"
    /\ NoNet
    /\ UNCHANGED <<notCT, result, conditions, max_results, page, ri, cur, out>>

\* the cell csv.DictWriter writes for a key the row lacks (restval = '')
EmptyCell == <<"">>

\* line 227: f"{key}_{sub_key}"
FlatKey(key, sub_key) == key \o "_" \o sub_key

\* the keys of item whose value is a dict
DictKeys(item) == {k \in DOMAIN item : IsDict(item[k])}

\* mutant of FlatItem: the isinstance branch is missing, a dict stays under its key
FlatItemShallow(item) == item

\* lines 226-227: the entries of the dict under key, one per sub_key in subs
RECURSIVE FlatSub(_, _, _)
FlatSub(key, value, subs) ==
    IF subs = {} THEN << >>
    ELSE LET sub_key == CHOOSE s \in subs : TRUE
         IN  (FlatKey(key, sub_key) :> value[sub_key]) @@ FlatSub(key, value, subs \ {sub_key})

\* lines 224-227: the entries of all the dicts of item under the keys in keys
RECURSIVE FlatNested(_, _)
FlatNested(item, keys) ==
    IF keys = {} THEN << >>
    ELSE LET key == CHOOSE k \in keys : TRUE
         IN  FlatSub(key, item[key][2], DOMAIN item[key][2]) @@ FlatNested(item, keys \ {key})

\* lines 223-229: flat_item of one record.  The records the scrapers build
\* have no top-level key of the form parent_sub, so no two assignments of the
\* loop write the same key
FlatItem(item) ==
    [k \in DOMAIN item \ DictKeys(item) |-> item[k]] @@ FlatNested(item, DictKeys(item))

\* line 233: the union of the keys of the flattened records; list(set) fixes
\* no order, so the header is a set of columns
Fieldnames(flattened) == UNION {DOMAIN flattened[i] : i \in 1..Len(flattened)}

\* lines 236-238: DictWriter.writerows; a key the row lacks gives restval
CsvRow(flat_item, fieldnames) == flat_item @@ [f \in fieldnames |-> EmptyCell]

\* lines 235-238: the header and the rows written for flattened_data
CsvTable(flattened, fieldnames) ==
    [header |-> fieldnames,
     rows |-> [i \in 1..Len(flattened) |-> CsvRow(flattened[i], fieldnames)]]

\* lines 221-238: the file save_to_csv writes for data
CsvFile(data) ==
    CsvTable([i \in 1..Len(data) |-> FlatItem(data[i])],
             Fieldnames([i \in 1..Len(data) |-> FlatItem(data[i])]))

\* the record of the flattening scenario and other records save_to_csv may be given
ExampleRecord ==
    [title |-> <<"X">>, eligibility |-> Dict([age |-> <<"18+">>, sex |-> <<"all">>])]
SampleRecords ==
    {ExampleRecord,
     [title |-> <<"Y">>, url |-> NA],
     [title |-> <<"Z">>, status |-> <<"text", "status">>, eligibility |-> Dict(EmptyDict)],
     [title |-> NA, eligibility |-> Dict([age |-> <<"65+">>])]}

\* save_to_json(data): the write may fail; the failure is caught and logged
save_to_json(ioFails) == IF ioFails THEN "logged" ELSE "written"

\* mutant of save_to_csv: no try/except around the write
save_to_csv_unguarded(ioFails) == IF ioFails THEN "raised" ELSE "written"

\* save_to_csv(data): the write may fail; the failure is caught and logged
save_to_csv(ioFails) == IF ioFails THEN "logged" ELSE "written"

\* lines 271-275: the two saves, of which the writes of the json and of the csv
\* file fail or not, and the return
SaveAndReturn(jsonFails, csvFails) ==
    /\ csv' = IF save_to_csv(csvFails) = "written" THEN Value(CsvFile(all_trials)) ELSE csv
    /\ IF save_to_json(jsonFails) = "raised" \/ save_to_csv(csvFails) = "raised"
       THEN pc' = "raised" /\ result' = result
       ELSE pc' = "done" /\ result' = Value(all_trials)

\* lines 269-275: save in both formats, return all_trials
CT_Finish ==
    /\ prog = "ct" /\ pc = "ct_for" /\ ti > Len(conditions)
    /\ \E jf \in BOOLEAN :
         \/ SaveAndReturn(jf, TRUE)
         \/ SaveAndReturn(jf, FALSE)
    /\ NoNet
    /\ UNCHANGED <<prog, pubmed_results, selenium_data, driver, warnings, exports, cancelled>>
    /\ UNCHANGED <<conditions, max_results, ti, page, ri, cur, out, all_trials, calls>>

\* a direct call save_to_csv(data): data is held in all_trials
CSV_Save ==
    /\ prog = "csv" /\ pc = "csv_start"
    /\ \E cf \in BOOLEAN :
         /\ csv' = IF save_to_csv(cf) = "written" THEN Value(CsvFile(all_trials)) ELSE csv
         /\ pc' = IF save_to_csv(cf) = "raised" THEN "raised" ELSE "done"
    /\ result' = None
    /\ NoNet
    /\ UNCHANGED <<prog, pubmed_results, selenium_data, driver, warnings, exports, cancelled>>
    /\ UNCHANGED <<conditions, max_results, ti, page, ri, cur, out, all_trials, calls>>


-----------------------------------------------------------------------------
(* NCBIScraper                                                             *)

\* what a 'docsum-content' fragment can look like
\*   "complete": <a class="docsum-title" href=...>, authors, journal, date
\*   "nohref":   the title link has no href; authors, journal, date present
\*   "untitled": no title link; authors, journal, date present
\*   "bare":     none of the elements
NCFragKinds == {"complete", "nohref", "untitled", "bare"}

NCSearchUrl == <<"search", "pubmed">>
NCGeneUrl == <<"search", "gene">>

NCNoLocals == [title |-> Unset, authors |-> Unset, journal |-> Unset,
               publication_date |-> Unset, url |-> Unset, abstract |-> Unset,
               dstat |-> "unset"]

\* lines 72-88: the summary fields of one article fragment
ArticleSummary(kind, pos) ==
    [title |-> IF kind \in {"complete", "nohref"} THEN Text("title", "pubmed", pos) ELSE NA,
     authors |-> IF kind = "bare" THEN NA ELSE Text("authors", "pubmed", pos),
     journal |-> IF kind = "bare" THEN NA ELSE Text("journal", "pubmed", pos),
     publication_date |-> IF kind = "bare" THEN NA ELSE Text("date", "pubmed", pos),
     url |-> IF kind = "complete" THEN Text("url", "pubmed", pos) ELSE NA]

\* lines 93-100: article_data
ArticleData(c) ==
    [title |-> c.title, authors |-> c.authors, journal |-> c.journal,
     publication_date |-> c.publication_date, url |-> c.url, abstract |-> c.abstract]

\* what _get_html_content(article_url) and the parse can give: requests.get
\* raises MissingSchema, a RequestException, for a url without a scheme
AbstractOutcomes(url) == IF url = NA THEN {"fail"} ELSE {"fail", "found", "absent"}

\* what a 'gene-result' fragment can look like
\*   "linked":  <h3 class="gene-name"><a href=...>, description
\*   "unnamed": no gene-name element, no description
\*   "badlink": the <a> under gene-name has no href (KeyError, fragment skipped)
GeneFragKinds == {"linked", "unnamed", "badlink"}

\* lines 157-161: gene_data
GeneData(kind, pos) ==
    [name |-> IF kind = "linked" THEN Text("name", "gene", pos) ELSE NA,
     description |-> IF kind = "linked" THEN Text("description", "gene", pos) ELSE NA,
     url |-> IF kind = "linked" THEN Text("url", "gene", pos) ELSE NA]

\* the indices of s, in order, whose element is in S
Kept(s, S) == SelectSeq([i \in 1..Len(s) |-> i], LAMBDA i : s[i] \in S)

\* lines 151-166: the loop of scrape_gene_database
GeneResults(p) ==
    LET idx == Kept(p, GeneFragKinds \ {"badlink"})
    IN  [j \in 1..Len(idx) |-> GeneData(p[idx[j]], idx[j])]

notNC == <<prog, conditions, max_results, ti, all_trials, calls, selenium_data,
           driver, warnings, exports, csv, cancelled>>

\* lines 190, 59-69: fetch the PubMed search page
NC_Search ==
    /\ prog = "ncbi" /\ pc = "nc_start"
    /\ Fetched(NCSearchUrl)
    /\ \E ok \in BOOLEAN :
         IF ~ok
         THEN /\ pubmed_results' = << >>
              /\ pc' = "nc_gene"
              /\ UNCHANGED <<page, ri, cur, out>>
         ELSE \E p \in SeqsUpTo(NCFragKinds, MaxFrags) :
              /\ page' = p
              /\ ri' = 1
              /\ out' = << >>
              /\ cur' = NCNoLocals
              /\ pc' = "nc_row"
              /\ UNCHANGED pubmed_results
    /\ UNCHANGED <<notNC, result>>

\* lines 69-88: take the next article fragment and read its summary fields
NC_Row ==
    /\ prog = "ncbi" /\ pc = "nc_row" /\ ri <= Len(page)
    /\ LET s == ArticleSummary(page[ri], ri)
       IN  cur' = [cur EXCEPT !.title = s.title, !.authors = s.authors,
                              !.journal = s.journal,
                              !.publication_date = s.publication_date,
                              !.url = s.url]
    /\ pc' = "nc_abstract"
    /\ NoNet
    /\ UNCHANGED <<notNC, result, page, ri, out, pubmed_results>>

\* lines 91, 111-133: _get_article_abstract(article_url)
NC_Abstract ==
    /\ prog = "ncbi" /\ pc = "nc_abstract"
    /\ Fetched(cur.url)
    /\ \E o \in AbstractOutcomes(cur.url) :
         cur' = [cur EXCEPT !.abstract = IF o = "found"
                                         THEN <<"abstract", cur.url>> ELSE NA,
                            !.dstat = o]
    /\ pc' = "nc_append"
    /\ UNCHANGED <<notNC, result, page, ri, out, pubmed_results>>

\* lines 93-104: build the record, append it, sleep
NC_Append ==
    /\ prog = "ncbi" /\ pc = "nc_append"
    /\ out' = Append(out, ArticleData(cur))
    /\ Slept
    /\ ri' = ri + 1
    /\ pc' = "nc_row"
    /\ UNCHANGED <<notNC, result, page, cur, pubmed_results>>

\* line 109, 190: return articles
NC_Return ==
    /\ prog = "ncbi" /\ pc = "nc_row" /\ ri > Len(page)
    /\ pubmed_results' = out
    /\ pc' = "nc_gene"
    /\ NoNet
    /\ UNCHANGED <<notNC, result, page, ri, cur, out>>

\* lines 191-200, 142-166: scrape_gene_database, combine, save_to_json
\* (save_to_json catches its own failures, lines 174-179)
NC_Gene ==
    /\ prog = "ncbi" /\ pc = "nc_gene"
    /\ Fetched(NCGeneUrl)
    /\ \E ok \in BOOLEAN :
         IF ~ok
         THEN /\ result' = Value([pubmed_articles |-> pubmed_results,
                                  gene_information |-> << >>])
              /\ page' = page
         ELSE \E p \in SeqsUpTo(GeneFragKinds, MaxFrags) :
              /\ result' = Value([pubmed_articles |-> pubmed_results,
                                  gene_information |-> GeneResults(p)])
              /\ page' = p
    /\ pc' = "done"
    /\ UNCHANGED <<notNC, ri, cur, out, pubmed_results>>

-----------------------------------------------------------------------------
(* CDCScraper                                                              *)

\* what a 'disease-item' fragment can look like
\*   "both":   has an h3 and a p
\*   "nodesc": has an h3, no p
\*   "noname": has no h3
CDCFragKinds == {"both", "nodesc", "noname"}

CDCDynamicUrl == <<"dynamic", "diseases">>
CDCStaticUrl == <<"static", "diseases">>

\* lines 56-59, 99-102: the record of one fragment
DiseaseRecord(src, pos) ==
    [name |-> Text("name", src, pos), description |-> Text("description", src, pos)]

\* mutant of UseSelenium: the emptiness test is forgotten
UseSeleniumIfNotNone(sd) == sd.kind # "None"

\* line 36: selenium_data is not None and not selenium_data.empty
UseSelenium(sd) == sd.kind # "None" /\ sd.val # << >>

\* lines 123-131: export_to_csv(df); a failing write is caught and logged
ExportToCsv(df) == exports' = Append(exports, df)

notCDC == <<prog, conditions, max_results, ti, all_trials, calls, pubmed_results, csv, cancelled>>

\* lines 34, 79-84: webdriver.Chrome(...); if it raises, line 114-116 returns
\* an empty DataFrame and 'driver' is not in locals()
CDC_DriverStart ==
    /\ prog = "cdc" /\ pc = "cdc_start"
    /\ \E ok \in BOOLEAN :
         IF ok
         THEN /\ driver' = "open"
              /\ pc' = "cdc_get"
              /\ UNCHANGED selenium_data
         ELSE /\ driver' = driver
              /\ selenium_data' = Value(<< >>)
              /\ pc' = "cdc_decide"
    /\ NoNet
    /\ UNCHANGED <<notCDC, page, ri, cur, out, result, warnings, exports>>

\* mutant of CDC_Get: no finally clause, a failing driver.get leaves the driver open
CDC_GetLeaksDriver ==
    /\ prog = "cdc" /\ pc = "cdc_get"
    /\ Navigated(CDCDynamicUrl)
    /\ \E ok \in BOOLEAN :
         IF ok
         THEN \E p \in SeqsUpTo(CDCFragKinds, MaxFrags) :
              /\ page' = p
              /\ ri' = 1
              /\ out' = << >>
              /\ cur' = [src |-> "dynamic"]
              /\ pc' = "cdc_element"
              /\ UNCHANGED <<selenium_data, driver>>
         ELSE /\ selenium_data' = Value(<< >>)
              /\ driver' = driver
              /\ pc' = "cdc_decide"
              /\ UNCHANGED <<page, ri, out, cur>>
    /\ UNCHANGED <<notCDC, result, warnings, exports>>

\* lines 87-93: driver.get, the settle delay, find_elements
CDC_Get ==
    /\ prog = "cdc" /\ pc = "cdc_get"
    /\ Navigated(CDCDynamicUrl)
    /\ \E ok \in BOOLEAN :
         IF ok
         THEN \E p \in SeqsUpTo(CDCFragKinds, MaxFrags) :
              /\ page' = p
              /\ ri' = 1
              /\ out' = << >>
              /\ cur' = [src |-> "dynamic"]
              /\ pc' = "cdc_element"
              /\ UNCHANGED <<selenium_data, driver>>
         ELSE \* except: return pd.DataFrame(); finally: driver.quit()
              /\ selenium_data' = Value(<< >>)
              /\ driver' = "quit"
              /\ pc' = "cdc_decide"
              /\ UNCHANGED <<page, ri, out, cur>>
    /\ UNCHANGED <<notCDC, result, warnings, exports>>

\* mutant of CDC_Element: a fragment without its description keeps its record,
\* with the sentinel as description
CDC_ElementKeepsPartial ==
    /\ prog = "cdc" /\ pc = "cdc_element" /\ ri <= Len(page)
    /\ IF page[ri] = "both"
       THEN /\ out' = Append(out, DiseaseRecord("dynamic", ri))
            /\ UNCHANGED warnings
       ELSE /\ out' = Append(out, [DiseaseRecord("dynamic", ri) EXCEPT !.description = NA])
            /\ warnings' = warnings + 1
    /\ ri' = ri + 1
    /\ NoNet
    /\ UNCHANGED <<notCDC, pc, page, cur, result, selenium_data, driver, exports>>

\* lines 94-104: one element of the dynamic page
CDC_Element ==
    /\ prog = "cdc" /\ pc = "cdc_element" /\ ri <= Len(page)
    /\ IF page[ri] = "both"
       THEN /\ out' = Append(out, DiseaseRecord("dynamic", ri))
            /\ UNCHANGED warnings
       ELSE \* find_element raises NoSuchElementException: warning, no record
            /\ warnings' = warnings + 1
            /\ UNCHANGED out
    /\ ri' = ri + 1
    /\ NoNet
    /\ UNCHANGED <<notCDC, pc, page, cur, result, selenium_data, driver, exports>>

\* lines 106-112, 118-121: DataFrame, export, return df; finally driver.quit()
CDC_SelReturn ==
    /\ prog = "cdc" /\ pc = "cdc_element" /\ ri > Len(page)
    /\ ExportToCsv(out)
    /\ selenium_data' = Value(out)
    /\ driver' = "quit"
    /\ pc' = "cdc_decide"
    /\ NoNet
    /\ UNCHANGED <<notCDC, page, ri, cur, out, result, warnings>>

\* lines 36-38: return the dynamic result unless it is empty
CDC_Decide ==
    /\ prog = "cdc" /\ pc = "cdc_decide"
    /\ IF UseSelenium(selenium_data)
       THEN result' = selenium_data /\ pc' = "done"
       ELSE result' = result /\ pc' = "cdc_static"
    /\ NoNet
    /\ UNCHANGED <<notCDC, page, ri, cur, out, cdcVars>>

\* lines 41-49, 71-73: the static fetch; any exception returns an empty DataFrame
CDC_Static ==
    /\ prog = "cdc" /\ pc = "cdc_static"
    /\ FetchedBare(CDCStaticUrl)
    /\ \E ok \in BOOLEAN :
         IF ok
         THEN \E p \in SeqsUpTo(CDCFragKinds, MaxFrags) :
              /\ page' = p
              /\ ri' = 1
              /\ out' = << >>
              /\ cur' = [src |-> "static"]
              /\ pc' = "cdc_section"
              /\ UNCHANGED result
         ELSE /\ result' = Value(<< >>)
              /\ pc' = "done"
              /\ UNCHANGED <<page, ri, out, cur>>
    /\ UNCHANGED <<notCDC, cdcVars>>

\* lines 50-61: one section of the static page; find() never raises, so the
\* except at line 60 has nothing to catch
CDC_Section ==
    /\ prog = "cdc" /\ pc = "cdc_section" /\ ri <= Len(page)
    /\ out' = IF page[ri] = "both" THEN Append(out, DiseaseRecord("static", ri)) ELSE out
    /\ ri' = ri + 1
    /\ NoNet
    /\ UNCHANGED <<notCDC, pc, page, cur, result, cdcVars>>

\* mutant of CDC_StaticReturn: an empty list of diseases is reported as a failure
CDC_StaticReturnNoneIfEmpty ==
    /\ prog = "cdc" /\ pc = "cdc_section" /\ ri > Len(page)
    /\ ExportToCsv(out)
    /\ result' = IF out = << >> THEN None ELSE Value(out)
    /\ pc' = "done"
    /\ NoNet
    /\ UNCHANGED <<notCDC, page, ri, cur, out, selenium_data, driver, warnings>>

\* mutant of CDC_StaticReturn: the static path returns its table without exporting it
CDC_StaticReturnNoExport ==
    /\ prog = "cdc" /\ pc = "cdc_section" /\ ri > Len(page)
    /\ UNCHANGED exports
    /\ result' = Value(out)
    /\ pc' = "done"
    /\ NoNet
    /\ UNCHANGED <<notCDC, page, ri, cur, out, selenium_data, driver, warnings>>

\* lines 63-69: DataFrame, export, return df
CDC_StaticReturn ==
    /\ prog = "cdc" /\ pc = "cdc_section" /\ ri > Len(page)
    /\ ExportToCsv(out)
    /\ result' = Value(out)
    /\ pc' = "done"
    /\ NoNet
    /\ UNCHANGED <<notCDC, page, ri, cur, out, selenium_data, driver, warnings>>

-----------------------------------------------------------------------------
(* NIHScraper and WHOScraper                                               *)

\* what a 'research-panel' / 'data-section' fragment can look like
\*   "full":      has an h3 and the details element
\*   "nodetails": has an h3, no details element ('N/A' is stored)
\*   "noh3":      has no h3 (section.find('h3').text raises AttributeError)
PanelKinds == {"full", "nodetails", "noh3"}

\* what a 'clinical-trial' element of the dynamic NIH page can look like
\*   "full":    has trial-disease and trial-status
\*   "partial": lacks one of them (find_element raises NoSuchElementException)
TrialElemKinds == {"full", "partial"}

NIHUrl == <<"static", "nih">>
NIHDynamicUrl == <<"dynamic", "nih">>
WHOUrl == <<"static", "who">>

\* nih lines 35-38: the record of one research panel
ResearchRecord(kind, pos) ==
    [disease |-> Text("disease", "nih", pos),
     research_summary |-> IF kind = "full" THEN Text("summary", "nih", pos) ELSE NA]

\* who lines 31-34: the record of one data section
HealthRecord(kind, pos) ==
    [disease |-> Text("disease", "who", pos),
     global_prevalence |-> IF kind = "full" THEN Text("stats", "who", pos) ELSE NA]

\* nih lines 68-71: the record of one clinical-trial element
TrialStatusRecord(pos) ==
    [disease |-> Text("disease", "nih", pos), trial_status |-> Text("status", "nih", pos)]

notNIH == <<conditions, max_results, ti, all_trials, calls, pubmed_results,
            selenium_data, warnings, exports, csv, cancelled, cur>>

\* nih lines 24-30: requests.get and find_all; an exception returns None
NIH_Fetch ==
    /\ prog = "nih" /\ pc = "nih_start"
    /\ FetchedBare(NIHUrl)
    /\ \E ok \in BOOLEAN :
         IF ok
         THEN \E p \in SeqsUpTo(PanelKinds, MaxFrags) :
              /\ page' = p /\ ri' = 1 /\ out' = << >>
              /\ pc' = "nih_section"
              /\ UNCHANGED result
         ELSE /\ result' = None
              /\ pc' = "done"
              /\ UNCHANGED <<page, ri, out>>
    /\ UNCHANGED <<prog, notNIH, driver>>

\* nih lines 31-38: one research panel; there is no try inside the loop, so
\* an AttributeError reaches line 47 and the method returns None
NIH_Section ==
    /\ prog = "nih" /\ pc = "nih_section" /\ ri <= Len(page)
    /\ IF page[ri] = "noh3"
       THEN /\ result' = None
            /\ pc' = "done"
            /\ UNCHANGED <<out, ri>>
       ELSE /\ out' = Append(out, ResearchRecord(page[ri], ri))
            /\ ri' = ri + 1
            /\ UNCHANGED <<result, pc>>
    /\ NoNet
    /\ UNCHANGED <<prog, notNIH, driver, page>>

\* nih lines 40-49: DataFrame, to_csv (a failing write returns None), return df
NIH_Save ==
    /\ prog = "nih" /\ pc = "nih_section" /\ ri > Len(page)
    /\ \E ioFails \in BOOLEAN : result' = IF ioFails THEN None ELSE Value(out)
    /\ pc' = "done"
    /\ NoNet
    /\ UNCHANGED <<prog, notNIH, driver, page, ri, out>>

\* nih line 55: webdriver.Chrome(...) is outside the try: its exception escapes
NIHSel_DriverStart ==
    /\ prog = "nih_sel" /\ pc = "nsel_start"
    /\ \E ok \in BOOLEAN :
         IF ok THEN driver' = "open" /\ pc' = "nsel_get"
               ELSE driver' = driver /\ pc' = "raised"
    /\ NoNet
    /\ UNCHANGED <<prog, notNIH, page, ri, out, result>>

\* nih lines 58-63, 80-84: driver.get, the settle delay, find_elements
NIHSel_Get ==
    /\ prog = "nih_sel" /\ pc = "nsel_get"
    /\ Navigated(NIHDynamicUrl)
    /\ \E ok \in BOOLEAN :
         IF ok
         THEN \E p \in SeqsUpTo(TrialElemKinds, MaxFrags) :
              /\ page' = p /\ ri' = 1 /\ out' = << >>
              /\ pc' = "nsel_element"
              /\ UNCHANGED <<result, driver>>
         ELSE /\ result' = None
              /\ driver' = "quit"
              /\ pc' = "done"
              /\ UNCHANGED <<page, ri, out>>
    /\ UNCHANGED <<prog, notNIH>>

\* nih lines 64-71, 80-84: one element; no try inside the loop
NIHSel_Element ==
    /\ prog = "nih_sel" /\ pc = "nsel_element" /\ ri <= Len(page)
    /\ IF page[ri] = "partial"
       THEN /\ result' = None
            /\ driver' = "quit"
            /\ pc' = "done"
            /\ UNCHANGED <<out, ri>>
       ELSE /\ out' = Append(out, TrialStatusRecord(ri))
            /\ ri' = ri + 1
            /\ UNCHANGED <<result, pc, driver>>
    /\ NoNet
    /\ UNCHANGED <<prog, notNIH, page>>

\* nih lines 73-84: DataFrame, to_csv, return df; finally driver.quit()
NIHSel_Save ==
    /\ prog = "nih_sel" /\ pc = "nsel_element" /\ ri > Len(page)
    /\ \E ioFails \in BOOLEAN : result' = IF ioFails THEN None ELSE Value(out)
    /\ driver' = "quit"
    /\ pc' = "done"
    /\ NoNet
    /\ UNCHANGED <<prog, notNIH, page, ri, out>>

\* who lines 19-26: requests.get and find_all; an exception returns None
WHO_Fetch ==
    /\ prog = "who" /\ pc = "who_start"
    /\ FetchedBare(WHOUrl)
    /\ \E ok \in BOOLEAN :
         IF ok
         THEN \E p \in SeqsUpTo(PanelKinds, MaxFrags) :
              /\ page' = p /\ ri' = 1 /\ out' = << >>
              /\ pc' = "who_section"
              /\ UNCHANGED result
         ELSE /\ result' = None
              /\ pc' = "done"
              /\ UNCHANGED <<page, ri, out>>
    /\ UNCHANGED <<prog, notNIH, driver>>

\* who lines 27-34, 38-40: one data section; no try inside the loop
WHO_Section ==
    /\ prog = "who" /\ pc = "who_section" /\ ri <= Len(page)
    /\ IF page[ri] = "noh3"
       THEN /\ result' = None
            /\ pc' = "done"
            /\ UNCHANGED <<out, ri>>
       ELSE /\ out' = Append(out, HealthRecord(page[ri], ri))
            /\ ri' = ri + 1
            /\ UNCHANGED <<result, pc>>
    /\ NoNet
    /\ UNCHANGED <<prog, notNIH, driver, page>>

\* who line 36: return pd.DataFrame(global_health_data)
WHO_Return ==
    /\ prog = "who" /\ pc = "who_section" /\ ri > Len(page)
    /\ result' = Value(out)
    /\ pc' = "done"
    /\ NoNet
    /\ UNCHANGED <<prog, notNIH, driver, page, ri, out>>

-----------------------------------------------------------------------------
(* MedicalInfoScraper                                                      *)

\* what a 'full-docsum' article fragment can look like
\*   "complete": <a class="docsum-title" href=...>, authors, journal
\*   "nohref":   the title link has no href; authors, journal present
\*   "bare":     none of the elements
MISFragKinds == {"complete", "nohref", "bare"}

\* what a 'trial-result' fragment can look like
\*   "full": has an h3 and the trial-status span
\*   "bare": has neither
MISTrialKinds == {"full", "bare"}

MISSearchUrl == <<"search", "mis pubmed">>
MISTrialsUrl == <<"search", "mis trials">>

\* pubmed lines 73-78: article_data of one fragment
MISArticle(kind, pos) ==
    [title |-> IF kind = "bare" THEN NA ELSE Text("title", "mis", pos),
     authors |-> IF kind = "bare" THEN NA ELSE Text("authors", "mis", pos),
     journal |-> IF kind = "bare" THEN NA ELSE Text("journal", "mis", pos),
     url |-> IF kind = "complete" THEN Text("url", "mis", pos) ELSE NA]

\* pubmed lines 65-83: the loop of scrape_pubmed; every access is guarded,
\* so no fragment raises
MISArticles(p) == [j \in 1..Len(p) |-> MISArticle(p[j], j)]

\* pubmed lines 107-111: trial_data of one fragment
MISTrial(kind, pos) ==
    [title |-> IF kind = "full" THEN Text("title", "mis trials", pos) ELSE NA,
     condition |-> <<"condition">>,
     status |-> IF kind = "full" THEN Text("status", "mis trials", pos) ELSE NA]

\* pubmed lines 104-114: the loop of scrape_clinical_trials
MISTrials(p) == [j \in 1..Len(p) |-> MISTrial(p[j], j)]

\* pubmed lines 142, 57-83: scrape_pubmed(search_term, max_results); max_results
\* goes into the url only
MIS_Pubmed ==
    /\ prog = "mis" /\ pc = "mis_start"
    /\ Fetched(MISSearchUrl)
    /\ \E ok \in BOOLEAN :
         IF ~ok
         THEN /\ pubmed_results' = << >>
              /\ page' = page
         ELSE \E p \in SeqsUpTo(MISFragKinds, MaxFrags) :
              /\ page' = p
              /\ pubmed_results' = MISArticles(p)
    /\ pc' = "mis_trials"
    /\ UNCHANGED <<notNC, ri, cur, out, result>>

\* pubmed lines 143-147, 93-118: scrape_clinical_trials, combine, save_to_json
\* (save_to_json catches its own failures, lines 126-131)
MIS_Trials ==
    /\ prog = "mis" /\ pc = "mis_trials"
    /\ FetchedBare(MISTrialsUrl)
    /\ \E ok \in BOOLEAN :
         IF ~ok
         THEN /\ result' = Value(pubmed_results \o << >>)
              /\ page' = page
         ELSE \E p \in SeqsUpTo(MISTrialKinds, MaxFrags) :
              /\ result' = Value(pubmed_results \o MISTrials(p))
              /\ page' = p
    /\ pc' = "done"
    /\ UNCHANGED <<notNC, ri, cur, out, pubmed_results>>

-----------------------------------------------------------------------------

Progs == {"ct", "ncbi", "cdc", "nih", "nih_sel", "who", "csv", "mis"}

\* where each entry point starts
StartPc(p) ==
    CASE p = "ct" -> "ct_for"
      [] p = "ncbi" -> "nc_start"
      [] p = "cdc" -> "cdc_start"
      [] p = "nih" -> "nih_start"
      [] p = "nih_sel" -> "nsel_start"
      [] p = "who" -> "who_start"
      [] p = "csv" -> "csv_start"
      [] p = "mis" -> "mis_start"

\* the locals of the fragment loop before the loop starts
InitLocals(p) ==
    CASE p = "ct" -> NoLocals
      [] p = "ncbi" -> NCNoLocals
      [] OTHER -> [src |-> "none"]

Init ==
    /\ prog \in Progs
    /\ pc = StartPc(prog)
    /\ conditions \in IF prog = "ct"
                      THEN {SubSeq(TermNames, 1, n) : n \in 0..Len(TermNames)}
                      ELSE {<< >>}
    /\ max_results \in CASE prog = "ct" -> (-1)..MaxResults
                          [] prog \in {"ncbi", "mis"} -> 0..MaxResults
                          [] OTHER -> {0}
    /\ ti = 1
    /\ page = << >>
    /\ ri = 1
    /\ cur = InitLocals(prog)
    /\ out = << >>
    /\ all_trials \in IF prog = "csv" THEN SeqsUpTo(SampleRecords, MaxRecords) ELSE {<< >>}
    /\ pubmed_results = << >>
    /\ selenium_data = Pending
    /\ result = Pending
    /\ driver = "none"
    /\ warnings = 0
    /\ exports = << >>
    /\ csv = Pending
    /\ cancelled = FALSE
    /\ calls = << >>
    /\ fetchLog = << >>
    /\ timeouts = << >>
    /\ lastNet = "none"
    /\ backToBack = FALSE

Next ==
    \/ CT_Search
    \/ CT_Row
    \/ CT_Details
    \/ CT_Append
    \/ CT_Return
    \/ CT_Finish
    \/ NC_Search
    \/ NC_Row
    \/ NC_Abstract
    \/ NC_Append
    \/ NC_Return
    \/ NC_Gene
    \/ CDC_DriverStart
    \/ CDC_Get
    \/ CDC_Element
    \/ CDC_SelReturn
    \/ CDC_Decide
    \/ CDC_Static
    \/ CDC_Section
    \/ CDC_StaticReturn
    \/ NIH_Fetch
    \/ NIH_Section
    \/ NIH_Save
    \/ NIHSel_DriverStart
    \/ NIHSel_Get
    \/ NIHSel_Element
    \/ NIHSel_Save
    \/ WHO_Fetch
    \/ WHO_Section
    \/ WHO_Return
    \/ CSV_Save
    \/ MIS_Pubmed
    \/ MIS_Trials

Spec == Init /\ [][Next]_vars

\* the caller asks a ClinicalTrials run in progress to stop.  Neither
\* run_comprehensive_scrape nor search_clinical_trials takes or reads any such
\* signal, so no action of the run mentions cancelled
Cancel ==
    /\ prog = "ct" /\ pc \notin {"done", "raised"}
    /\ ~cancelled
    /\ cancelled' = TRUE
    /\ NoNet
    /\ UNCHANGED <<prog, pc, conditions, max_results, ti, page, ri, cur, out,
                   all_trials, pubmed_results, selenium_data, result, driver,
                   warnings, exports, csv, calls>>

NextCancel ==
    \/ Next
    \/ Cancel

\* the runs with a caller that may ask to stop at any moment
CancelSpec == Init /\ [][NextCancel]_vars

\* every step is a step of the one sequential program: it is taken if it can be
FairSpec == Init /\ [][Next]_vars /\ WF_vars(Next)

-----------------------------------------------------------------------------
(* Properties                                                              *)

Range(s) == {s[i] : i \in 1..Len(s)}

\* the concatenation of what the finished search calls returned, in call order
RECURSIVE Returned(_)
Returned(cs) == IF cs = << >> THEN << >> ELSE Returned(SubSeq(cs, 1, Len(cs) - 1)) \o Last(cs).ret

\* C1: for max_results k >= 0 every search_clinical_trials call builds and
\* returns at most k records, so the aggregated list holds at most k records
\* per searched condition
C1_AtMostMaxResults ==
    (prog = "ct" /\ max_results >= 0) =>
        /\ Len(out) <= max_results
        /\ \A i \in 1..Len(calls) : Len(calls[i].ret) <= max_results
        /\ Len(all_trials) <= max_results * Len(calls)

\* a search call has returned exactly k >= 1 records from a page with more than k fragments
C1_Witness ==
    /\ prog = "ct" /\ pc = "ct_for" /\ max_results >= 1
    /\ calls # << >> /\ ~Last(calls).failed
    /\ Len(page) > max_results
    /\ Len(Last(calls).ret) = max_results

\* C2: a condition whose search-page fetch fails contributes no record, the run
\* still searches every condition and returns, and the aggregated list is the
\* concatenation of what the other searches returned; with [A, B] and A
\* failing it is exactly what the search for B returned
C2_FailedTermContributesNothing ==
    prog = "ct" =>
        /\ \A i \in 1..Len(calls) : calls[i].failed => calls[i].ret = << >>
        /\ all_trials = Returned(calls)
        /\ pc = "done" =>
             /\ Len(calls) = Len(conditions)
             /\ result = Value(all_trials)
             /\ (Len(calls) = 2 /\ calls[1].failed /\ ~calls[2].failed)
                    => all_trials = calls[2].ret

\* the run over [A, B] has returned, A's search fetch failed, B's gave records
C2_Witness ==
    /\ prog = "ct" /\ pc = "done" /\ Len(calls) = 2
    /\ calls[1].failed /\ ~calls[2].failed
    /\ calls[2].ret # << >>
    /\ result = Value(calls[2].ret)

\* every record the ClinicalTrialsScraper run holds: under construction or aggregated
TrialRecords == Range(out) \cup Range(all_trials)

\* C3 as stated: every emitted record has all 13 field names, also the records
\* whose detail URL is 'N/A' and those whose detail-page fetch failed
C3_EveryRecordHasAllFields ==
    prog = "ct" => \A r \in TrialRecords : DOMAIN r = TrialFields

\* C3 as amended: every emitted record has title and url and only field names
\* of the schema; a record whose detail page was fetched and extracted without
\* error has all 13, each text field being extracted text or 'N/A' and
\* eligibility a mapping; a record whose detail URL is 'N/A' or whose detail
\* fetch failed has title and url only
C3_FieldsFollowDetailOutcome ==
    prog = "ct" =>
        /\ \A r \in TrialRecords :
             /\ {"title", "url"} \subseteq DOMAIN r
             /\ DOMAIN r \subseteq TrialFields
             /\ r.url = NA => DOMAIN r = {"title", "url"}
             /\ \A k \in DOMAIN r \ {"title", "url"} :
                  IF k = "eligibility" THEN IsDict(r[k])
                  ELSE r[k] = NA \/ r[k] = <<"text", k>>
        /\ (pc = "ct_row" /\ out # << >>) =>
             /\ cur.dstat \in {"skipped", "fail"} => DOMAIN Last(out) = {"title", "url"}
             /\ cur.dstat = "ok" => DOMAIN Last(out) = TrialFields

\* one search call holds a record with all 13 fields followed by a record of a
\* fragment with a real url whose detail fetch failed, which has 2 fields
C3_Witness ==
    /\ prog = "ct" /\ pc = "ct_row" /\ Len(out) = 2
    /\ DOMAIN out[1] = TrialFields
    /\ cur.dstat = "fail" /\ out[2].url # NA
    /\ DOMAIN out[2] = {"title", "url"}

\* the records of the fragments of p that have both elements, in document order
CompleteRecords(src, p) ==
    LET idx == Kept(p, {"both"})
    IN  [j \in 1..Len(idx) |-> DiseaseRecord(src, idx[j])]

\* the dynamic extraction of the CDC page has returned
DynamicExtracted == prog = "cdc" /\ pc = "cdc_decide" /\ cur.src = "dynamic"
\* the static extraction of the CDC page has returned
StaticExtracted == prog = "cdc" /\ pc = "done" /\ cur.src = "static"

ResearchRecords(p) ==
    LET idx == Kept(p, PanelKinds \ {"noh3"})
    IN  [j \in 1..Len(idx) |-> ResearchRecord(p[idx[j]], idx[j])]

\* the records of the WHO sections of p that have an h3, in document order
HealthRecords(p) ==
    LET idx == Kept(p, PanelKinds \ {"noh3"})
    IN  [j \in 1..Len(idx) |-> HealthRecord(p[idx[j]], idx[j])]

\* C5: when one fragment raises, the operation still returns the records of
\* the other fragments of the page (NIH and WHO static, NIH dynamic,
\* ClinicalTrials search)
C5_FragmentErrorSkipsOnlyThatFragment ==
    /\ (prog = "nih" /\ pc = "done" /\ "noh3" \in Range(page))
          => result = Value(ResearchRecords(page))
    /\ (prog = "who" /\ pc = "done" /\ "noh3" \in Range(page))
          => result = Value(HealthRecords(page))
    /\ (prog = "nih_sel" /\ pc = "done" /\ "partial" \in Range(page))
          => /\ result.kind = "value"
             /\ Len(result.val) = Len(Kept(page, {"full"}))
    /\ (prog = "ct" /\ pc = "ct_for" /\ calls # << >> /\ ~Last(calls).failed)
          => Len(Last(calls).ret) = Len(Kept(Rows, CTFragKinds \ {"nohref"}))

\* C6: no fetch is issued for the sentinel url 'N/A', and resolving a record
\* with that url adds nothing to it
C6_NoFetchForSentinelUrl ==
    /\ NA \notin Range(fetchLog)
    /\ (prog = "ct" /\ pc = "ct_append" /\ cur.url = NA) => cur.details = EmptyDict

\* C7: when the detail fetch of a record failed, the record appended next
\* carries the summary fields as they were before the detail step, and the
\* records before it are untouched
C7_DetailFailureKeepsParent ==
    [][ /\ (prog = "ct" /\ pc = "ct_append" /\ cur.dstat = "fail") =>
             /\ Len(out') = Len(out) + 1
             /\ SubSeq(out', 1, Len(out)) = out
             /\ {"title", "url"} \subseteq DOMAIN Last(out')
             /\ Last(out').title = cur.title
             /\ Last(out').url = cur.url
        /\ (prog = "ncbi" /\ pc = "nc_append" /\ cur.dstat = "fail") =>
             /\ Len(out') = Len(out) + 1
             /\ SubSeq(out', 1, Len(out)) = out
             /\ \A k \in {"title", "authors", "journal", "publication_date", "url"} :
                  Last(out')[k] = cur[k]
      ]_vars

\* a trial whose detail fetch failed has been appended with its title and url
C7_Witness ==
    /\ prog = "ct" /\ pc = "ct_row" /\ out # << >>
    /\ cur.dstat = "fail" /\ cur.url # NA
    /\ Last(out).url = cur.url /\ Last(out).title = cur.title

\* C8: every run of run_comprehensive_scrape, whatever fails on the way, has
\* searched every condition and ends by returning all_trials
C8_RunTerminates ==
    (prog = "ct") ~> (/\ pc = "done"
                      /\ Len(calls) = Len(conditions)
                      /\ result = Value(all_trials))

\* a run has returned records although a search fetch and a detail fetch
\* failed and a fragment raised
C8_Witness ==
    /\ prog = "ct" /\ pc = "done" /\ result = Value(all_trials)
    /\ \E i \in 1..Len(calls) : calls[i].failed
    /\ "nohref" \in Range(page)
    /\ \E r \in Range(all_trials) : r.url # NA /\ DOMAIN r = {"title", "url"}

\* C9: in a ClinicalTrials or NCBI run a sleep separates every two consecutive fetches
C9_ThrottleBetweenFetches ==
    prog \in {"ct", "ncbi"} => ~backToBack

\* C10: the static fetch is issued only after the dynamic attempt has returned
\* an empty result; when scrape_disease_data returns, the static fetch was
\* issued iff the dynamic result was empty, and a non-empty dynamic result is
\* the returned result
C10_StaticOnlyAfterEmptyDynamic ==
    prog = "cdc" =>
        /\ fetchLog \in {<< >>, <<CDCDynamicUrl>>, <<CDCStaticUrl>>,
                         <<CDCDynamicUrl, CDCStaticUrl>>}
        /\ CDCStaticUrl \in Range(fetchLog) => selenium_data = Value(<< >>)
        /\ fetchLog = <<CDCStaticUrl>> => driver = "none"
        /\ pc \in {"cdc_static", "cdc_section", "done"} => selenium_data.kind = "value"
        /\ pc = "done" =>
             /\ CDCStaticUrl \in Range(fetchLog) <=> selenium_data.val = << >>
             /\ selenium_data.val # << >> => result = selenium_data

\* the dynamic fetch gave records: they are returned and no static fetch was issued
C10_Witness ==
    /\ prog = "cdc" /\ pc = "done"
    /\ selenium_data.val # << >>
    /\ result = selenium_data
    /\ fetchLog = <<CDCDynamicUrl>>

\* the selenium_advanced_scrape call of the run has returned (or raised)
SeleniumCallEnded ==
    \/ prog = "cdc" /\ pc \in {"cdc_decide", "cdc_static", "cdc_section", "done"}
    \/ prog = "nih_sel" /\ pc \in {"done", "raised"}

\* C11: once selenium_advanced_scrape (CDC, NIH) has ended, no driver is open:
\* a driver that loaded a page has been quit, whether the call returned
\* normally, the page load raised, or the extraction or the export raised; a
\* driver that was quit is never used again
C11_DriverReleasedOnEveryExit ==
    /\ [](SeleniumCallEnded =>
            /\ driver # "open"
            /\ (fetchLog # << >> /\ fetchLog[1] \in {CDCDynamicUrl, NIHDynamicUrl})
                  => driver = "quit")
    /\ [][driver = "quit" => driver' = "quit"]_vars

\* the NIH dynamic call ended by an exception during extraction (an element
\* lacking a field): it returned None and the driver has been quit
C11_Witness ==
    /\ prog = "nih_sel" /\ pc = "done"
    /\ "partial" \in Range(page)
    /\ result = None
    /\ driver = "quit"

\* the (title, url) pairs the rows rs of term's search page give, in document
\* order, one per row that does not raise
SummariesInOrder(rs, term) ==
    LET idx == Kept(rs, CTFragKinds \ {"nohref"})
    IN  [j \in 1..Len(idx) |->
            IF rs[idx[j]] = "titled"
            THEN <<Text("title", term, idx[j]), Text("url", term, idx[j])>>
            ELSE <<NA, NA>>]

\* the (title, url) pairs of a list of records
SummariesOf(rs) == [j \in 1..Len(rs) |-> <<rs[j].title, rs[j].url>>]

\* C12: the aggregated list is the concatenation of the calls' results in the
\* order of the conditions; the records of a call are those of its rows in
\* document order, one per row that did not raise, equal records included:
\* nothing is reordered, sorted or de-duplicated
C12_OrderPreserved ==
    prog = "ct" =>
        /\ all_trials = Returned(calls)
        /\ Len(calls) = ti - 1
        /\ pc = "ct_row" =>
             SummariesOf(out) = SummariesInOrder(SubSeq(Rows, 1, ri - 1), conditions[ti])
        /\ (pc = "ct_for" /\ calls # << >> /\ ~Last(calls).failed) =>
             SummariesOf(Last(calls).ret) = SummariesInOrder(Rows, conditions[ti - 1])
        /\ \A i \in 1..Len(calls) : \A j \in 1..Len(calls[i].ret) :
             LET t == calls[i].ret[j].title
             IN  t # NA =>
                   /\ t[2] = conditions[i]
                   /\ \A k \in 1..(j - 1) :
                        calls[i].ret[k].title # NA => calls[i].ret[k].title[3] < t[3]
        /\ pc = "done" => result = Value(Returned(calls))

\* the run over [A, B] returned A's two equal records (two untitled rows)
\* followed by B's records
C12_Witness ==
    /\ prog = "ct" /\ pc = "done" /\ Len(calls) = 2
    /\ Len(calls[1].ret) = 2 /\ calls[1].ret[1] = calls[1].ret[2]
    /\ Len(calls[2].ret) = 2 /\ calls[2].ret[1].title = Text("title", "B", 1)
    /\ result = Value(calls[1].ret \o calls[2].ret)

\* save_to_csv has written its file for the data in all_trials
CsvWritten == prog \in {"ct", "csv"} /\ pc = "done" /\ csv.kind = "value"

\* the columns record r fills: its non-mapping keys and parent_sub for each
\* entry of a nested mapping
ColumnsOf(r) ==
    {k \in DOMAIN r : r[k][1] # "dict"} \cup
    UNION {{k \o "_" \o s : s \in DOMAIN r[k][2]} : k \in {d \in DOMAIN r : r[d][1] = "dict"}}

\* C13: in the file save_to_csv writes, every non-mapping field of a record is
\* in the column named by its key, every entry sub of a mapping under parent
\* is in the column parent_sub, the header is the union of these columns over
\* all records, and a record has an empty cell in every other column; the
\* record {title: X, eligibility: {age: 18+, sex: all}} fills exactly the
\* columns title, eligibility_age, eligibility_sex
C13_CsvFlattensNestedMappings ==
    CsvWritten =>
        LET f == csv.val
        IN  /\ Len(f.rows) = Len(all_trials)
            /\ f.header = UNION {ColumnsOf(all_trials[i]) : i \in 1..Len(all_trials)}
            /\ \A i \in 1..Len(all_trials) :
                 LET r == all_trials[i]
                 IN  /\ DOMAIN f.rows[i] = f.header
                     /\ \A k \in DOMAIN r :
                          IF r[k][1] = "dict"
                          THEN \A s \in DOMAIN r[k][2] :
                                 /\ (k \o "_" \o s) \in f.header
                                 /\ f.rows[i][k \o "_" \o s] = r[k][2][s]
                          ELSE /\ k \in f.header
                               /\ f.rows[i][k] = r[k]
                     /\ \A c \in f.header \ ColumnsOf(r) : f.rows[i][c] = EmptyCell
                     /\ r = ExampleRecord =>
                          {c \in f.header : f.rows[i][c] # EmptyCell}
                              = {"title", "eligibility_age", "eligibility_sex"}
            /\ all_trials = <<ExampleRecord>> =>
                 f.header = {"title", "eligibility_age", "eligibility_sex"}

\* the file was written for the scenario's record followed by a record with
\* title and url only, whose cells under eligibility_age and eligibility_sex are empty
C13_Witness ==
    /\ CsvWritten /\ prog = "csv"
    /\ Len(all_trials) = 2 /\ all_trials[1] = ExampleRecord
    /\ DOMAIN all_trials[2] = {"title", "url"}
    /\ csv.val.header = {"title", "url", "eligibility_age", "eligibility_sex"}
    /\ csv.val.rows[2]["eligibility_age"] = EmptyCell
    /\ csv.val.rows[1]["eligibility_sex"] = <<"all">>

\* C14: once the cancellation signal is raised no further fetch is issued, and
\* the run returns what was aggregated when it was raised as its normal result
C14_CancellationStopsFetches ==
    /\ [][cancelled => fetchLog' = fetchLog]_vars
    /\ []((cancelled /\ pc = "done") => result = Value(all_trials))

\* C15: every fetch issued by any extractor carries a timeout
C15_EveryFetchHasTimeout ==
    \A i \in 1..Len(timeouts) : timeouts[i] # NoTimeout

\* the detail (abstract) fetches an NCBI run has issued
AbstractFetches == SelectSeq(fetchLog, LAMBDA u : u \notin {NCSearchUrl, NCGeneUrl})

\* C16: scrape_pubmed(search_term, max_results) of NCBIScraper and of
\* MedicalInfoScraper returns at most max_results records, and NCBIScraper
\* issues at most max_results abstract fetches, whatever the search page holds
C16_PubmedAtMostMaxResults ==
    /\ prog = "ncbi" =>
         /\ Len(out) <= max_results
         /\ Len(pubmed_results) <= max_results
         /\ Len(AbstractFetches) <= max_results
    /\ prog = "mis" => Len(pubmed_results) <= max_results

\* C17: a successfully fetched page with no record fragment gives the empty
\* list and no error: search_clinical_trials and both scrape_pubmed return
\* [], the dynamic CDC attempt returns an empty table, and scrape_disease_data
\* returns an empty table when the static page has no fragment either
C17_EmptyPageGivesEmptyResult ==
    /\ prog \in {"ct", "ncbi", "mis", "cdc"} => pc # "raised"
    /\ (prog = "ct" /\ pc = "ct_for" /\ calls # << >> /\ ~Last(calls).failed /\ page = << >>)
          => Last(calls).ret = << >>
    /\ (prog = "ncbi" /\ pc = "nc_gene" /\ page = << >>) => pubmed_results = << >>
    /\ (prog = "mis" /\ pc = "mis_trials" /\ page = << >>) => pubmed_results = << >>
    /\ (DynamicExtracted /\ page = << >>) => selenium_data = Value(<< >>)
    /\ (StaticExtracted /\ page = << >>) => result = Value(<< >>)

\* both CDC pages were fetched and neither held a fragment: two empty exports,
\* no warning, and the empty table is returned
C17_Witness ==
    /\ StaticExtracted /\ page = << >>
    /\ fetchLog = <<CDCDynamicUrl, CDCStaticUrl>>
    /\ exports = << << >>, << >> >>
    /\ warnings = 0
    /\ result = Value(<< >>)

\* the positions of fetchLog that hold a search-page fetch
SearchAt == {i \in 1..Len(fetchLog) : fetchLog[i][1] = "search"}
\* the positions of fetchLog that hold a detail-page fetch
DetailAt == {i \in 1..Len(fetchLog) : fetchLog[i][1] = "url"}
\* the search fetches issued, in order
SearchFetches == SelectSeq(fetchLog, LAMBDA u : u[1] = "search")

\* C18: the fetches of a ClinicalTrials run are, for each condition in input
\* order, one search fetch followed by the detail fetches of that condition's
\* records in document order: a detail fetch belongs to the condition of the
\* latest search fetch before it, and none is issued for a condition whose
\* search fetch failed
C18_FetchesFollowTermStateMachine ==
    prog = "ct" =>
        /\ Len(SearchFetches) = IF pc \in {"ct_for", "done"} THEN ti - 1 ELSE ti
        /\ \A k \in 1..Len(SearchFetches) : SearchFetches[k] = CTSearchUrl(conditions[k])
        /\ pc = "done" => Len(SearchFetches) = Len(conditions)
        /\ \A i \in DetailAt :
             /\ \E j \in SearchAt :
                  /\ j < i
                  /\ fetchLog[j] = CTSearchUrl(fetchLog[i][2])
                  /\ \A s \in SearchAt : s < i => s <= j
             /\ \A j \in DetailAt :
                  (j < i /\ fetchLog[j][2] = fetchLog[i][2]) => fetchLog[j][3] < fetchLog[i][3]
        /\ \A k \in 1..Len(calls) :
             calls[k].failed => \A i \in DetailAt : fetchLog[i][2] # conditions[k]

\* the run over [A, B] issued A's search fetch, A's two detail fetches in
\* document order, then B's search fetch and B's two detail fetches
C18_Witness ==
    /\ prog = "ct" /\ pc = "done"
    /\ fetchLog = <<CTSearchUrl("A"), Text("url", "A", 1), Text("url", "A", 2),
                    CTSearchUrl("B"), Text("url", "B", 1), Text("url", "B", 2)>>

\* C19: when scrape_disease_data returns and an export was made, the data of
\* the last export equals the returned data; when the static extraction's
\* table is returned after a dynamic attempt that exported an empty table,
\* the static export came after it and is the last one
C19_LastExportEqualsResult ==
    (prog = "cdc" /\ pc = "done") =>
        /\ result.kind = "value"
        /\ exports # << >> => Last(exports) = result.val
        /\ Len(exports) <= 2
        /\ StaticExtracted =>
             /\ exports # << >>
             /\ Len(exports) = 2 => exports[1] = << >>
             /\ Last(exports) = CompleteRecords("static", page)

\* the dynamic attempt exported an empty table, the static attempt then
\* exported and returned a record
C19_Witness ==
    /\ StaticExtracted
    /\ Len(exports) = 2 /\ exports[1] = << >>
    /\ exports[2] # << >>
    /\ result = Value(exports[2])

=============================================================================
